---- MODULE Spec2Model ----
(***************************************************************************)
(* Book Buddy backend: the book service and repository (book_service.py,   *)
(* book_repository.py), the Book / User tables and the registration flow   *)
(* (auth_service.py, user_repository.py) as a state machine over the two   *)
(* tables.  Every service method is an operator from (table, arguments) to *)
(* (table, error, result); an action applies one service method.           *)
(***************************************************************************)
EXTENDS Integers, FiniteSets, Sequences, TLC

VARIABLES users, books, inflight, last

vars == <<users, books, inflight, last>>

----------------------------------------------------------------------------
(* Bounds of the model *)

MaxBooks == 2
MaxDatedBooks == 1
MaxDate == 2
MaxPatchFields == 1
MaxUsers == 2
MaxSalt == 1
MaxIssueTime == 1
MaxCalls == 2
MaxStatsCalls == 1

----------------------------------------------------------------------------
(* Python's None for Optional[int] / Optional[date] and for Optional[str]  *)

NoneInt == -1
NoneStr == "None"
(* None for title / author, which are sequences of characters *)
NoneText == <<"None">>

(* schemas/book.py: ReadingStatus, BookGenre *)
TO_READ == "To Read"
READING == "Reading"
COMPLETED == "Completed"
ReadingStatus == {TO_READ, READING, COMPLETED}
BookGenre == {"Fiction", "Non-Fiction", "Mystery", "Sci-Fi", "Biography", "Fantasy",
              "Romance", "Thriller", "Self-Help", "History", "Other"}

(* the ValueError messages of the services; "ok" is a normal return *)
Ok == "ok"
ErrDateOrder == "End date cannot be before start date"
ErrRating == "Rating must be between 1 and 5"
ErrBookNotFound == "Book not found"
ErrInvalidStatus == "Invalid status"
ErrSearchTerm == "Search term must be at least 2 characters"
ErrIntegrity == "IntegrityError"
ErrEmailTaken == "Email already registered"
ErrUsernameTaken == "Username already taken"
ErrInvalidCredentials == "Invalid email or password"
ErrUserNotFound == "User not found"
ErrCurrentPassword == "Current password is incorrect"
ErrPasswordIncorrect == "Password is incorrect"

(* the detail of the 401 responses of the request authentication *)
ErrCredentials == "Could not validate credentials"
ErrNotAuthenticated == "Not authenticated"

(* config.py: the JWT settings (times are in minutes) *)
SECRET_KEY == "your-super-secret-key"
ACCESS_TOKEN_EXPIRE_MINUTES == 30

(* a request that carries no Authorization header *)
NoHeader == [sub |-> NoneStr, user_id |-> NoneInt, exp |-> NoneInt, key |-> "no-header"]

(* the columns a BookUpdate can carry *)
BookFields == {"title", "author", "genre", "start_date", "end_date", "status", "notes", "rating"}

(* columns declared nullable=False in the books table *)
NotNullFields == {"title", "author", "genre", "status"}

----------------------------------------------------------------------------
(* Input domains *)

Dates == 1..MaxDate
OptDates == Dates \cup {NoneInt}
Titles == {<<"D", "u">>}
Authors == {<<"H", "e">>}
GenreInputs == {"Fiction", "Mystery"}
NotesInputs == {"n"}
RatingInputs == {0, 1, 5, 6}
StatusInputs == ReadingStatus \cup {"Unknown"}
Usernames == {"alice", "bob", "carol"}
Emails == {"a@x.com", "b@x.com", "c@x.com"}
Passwords == {"pw123456"}
Salts == 1..MaxSalt
SearchTerms == {<<"u">>, <<"d", "u">>, <<"h", "E">>, <<"x", "y">>, <<"d", "_">>, <<"%", "%">>}
BookIds == 1..MaxBooks

(* passwords tried at login and chosen at a password change *)
NewPasswords == {"pw654321"}
LoginPasswords == Passwords \cup NewPasswords

(* the times (in minutes) at which tokens are issued and presented *)
IssueTimes == 0..MaxIssueTime
ResolveTimes == {0} \cup {ACCESS_TOKEN_EXPIRE_MINUTES + t : t \in 0..(MaxIssueTime + 1)}

(* the Authorization header of a request: none, or a bearer token signed   *)
(* with the application's key or with another one                          *)
TokenInputs ==
    {[sub |-> s, user_id |-> i, exp |-> ACCESS_TOKEN_EXPIRE_MINUTES + t, key |-> k] :
        s \in {"a@x.com", NoneStr}, i \in (1..(MaxUsers + 1)) \cup {NoneInt},
        t \in IssueTimes, k \in {SECRET_KEY, "another-key"}}
AuthorizationInputs == TokenInputs \cup {NoHeader}

(* UserUpdate objects: username and email, None when not supplied *)
ProfilePatches ==
    {[username |-> n, email |-> e] :
        n \in {"alice", "bob", NoneStr}, e \in {"a@x.com", "b@x.com", NoneStr}}

(* the requests that may be in flight at the same time *)
Calls == 1..MaxCalls

----------------------------------------------------------------------------
(* Pydantic payloads.  A BookCreate / BookUpdate object holds every field   *)
(* (None when not supplied) and fields_set, the names that were supplied    *)
(* or assigned (model_dump(exclude_unset=True) dumps exactly those).        *)

Payload(fs, t, a, g, sd, ed, st, n, r) ==
    [fields_set |-> fs, title |-> t, author |-> a, genre |-> g, start_date |-> sd,
     end_date |-> ed, status |-> st, notes |-> n, rating |-> r]

(* BookUpdate(): no field supplied *)
EmptyUpdate ==
    Payload({}, NoneText, NoneText, NoneStr, NoneInt, NoneInt, NoneStr, NoneStr, NoneInt)

(* attribute assignment on a pydantic object: the value is stored and the  *)
(* name joins fields_set                                                    *)
SetAttr(data, field, value) ==
    [[data EXCEPT ![field] = value] EXCEPT !.fields_set = data.fields_set \cup {field}]

(* a stored row of the books table *)
BookRow(id, uid, t, a, g, sd, ed, st, n, r) ==
    [id |-> id, user_id |-> uid, title |-> t, author |-> a, genre |-> g,
     start_date |-> sd, end_date |-> ed, status |-> st, notes |-> n, rating |-> r]

(* the result of a service or repository call: the table afterwards, the   *)
(* error raised (Ok when none) and the rows returned                        *)
Result(bks, err, ret) == [books |-> bks, error |-> err, ret |-> ret]

----------------------------------------------------------------------------
(* BookRepository *)

SetMax(S) == CHOOSE x \in S : \A y \in S : y <= x

(* INTEGER PRIMARY KEY of the books table: the next rowid *)
NewBookId(bks) == IF bks = {} THEN 1 ELSE SetMax({b.id : b \in bks}) + 1

(* a commit fails when a nullable=False column holds NULL *)
RowViolatesNotNull(row) ==
    \/ row.title = NoneText
    \/ row.author = NoneText
    \/ row.genre = NoneStr
    \/ row.status = NoneStr

get_by_id_and_user_NoOwnerFilter(bks, book_id, user_id) ==
    {b \in bks : b.id = book_id}

get_by_id_and_user(bks, book_id, user_id) ==
    {b \in bks : b.id = book_id /\ b.user_id = user_id}

(* .offset(skip).limit(limit) over the user's rows, in rowid order *)
get_all_by_user(bks, user_id, skip, limit) ==
    LET mine == {b \in bks : b.user_id = user_id}
        rank(b) == Cardinality({c \in mine : c.id <= b.id})
    IN  {b \in mine : rank(b) > skip /\ rank(b) <= skip + limit}

get_by_status(bks, user_id, status) ==
    {b \in bks : b.user_id = user_id /\ b.status = status}

get_by_genre(bks, user_id, genre) ==
    {b \in bks : b.user_id = user_id /\ b.genre = genre}

count_by_user(bks, user_id) == Cardinality({b \in bks : b.user_id = user_id})

(* SQL lower() on one character, as ILIKE folds case *)
Lower(c) ==
    CASE c = "A" -> "a" [] c = "B" -> "b" [] c = "C" -> "c" [] c = "D" -> "d"
      [] c = "E" -> "e" [] c = "F" -> "f" [] c = "G" -> "g" [] c = "H" -> "h"
      [] c = "I" -> "i" [] c = "J" -> "j" [] c = "K" -> "k" [] c = "L" -> "l"
      [] c = "M" -> "m" [] c = "N" -> "n" [] c = "O" -> "o" [] c = "P" -> "p"
      [] c = "Q" -> "q" [] c = "R" -> "r" [] c = "S" -> "s" [] c = "T" -> "t"
      [] c = "U" -> "u" [] c = "V" -> "v" [] c = "W" -> "w" [] c = "X" -> "x"
      [] c = "Y" -> "y" [] c = "Z" -> "z"
      [] OTHER -> c

RECURSIVE LikeMatch(_, _)
(* SQL LIKE: % matches any run of characters, _ any one character *)
LikeMatch(pattern, text) ==
    IF pattern = <<>> THEN text = <<>>
    ELSE IF Head(pattern) = "%"
         THEN \/ LikeMatch(Tail(pattern), text)
              \/ text # <<>> /\ LikeMatch(pattern, Tail(text))
         ELSE /\ text # <<>>
              /\ (Head(pattern) = "_" \/ Lower(Head(pattern)) = Lower(Head(text)))
              /\ LikeMatch(Tail(pattern), Tail(text))

ILike(text, pattern) == LikeMatch(pattern, text)

repo_search_books(bks, user_id, search_term) ==
    LET search == <<"%">> \o search_term \o <<"%">>
    IN  {b \in bks : /\ b.user_id = user_id
                     /\ (ILike(b.title, search) \/ ILike(b.author, search))}

(* db.add + db.commit of the new row.  The books.user_id foreign key is    *)
(* not checked at the insert: the engine of database.py is SQLite, whose    *)
(* connections enforce foreign keys only after PRAGMA foreign_keys=ON,      *)
(* which the application never issues                                       *)
repo_create(bks, book_data, user_id) ==
    LET row == BookRow(NewBookId(bks), user_id, book_data.title, book_data.author,
                       book_data.genre, book_data.start_date, book_data.end_date,
                       IF book_data.status # NoneStr THEN book_data.status ELSE TO_READ,
                       book_data.notes, book_data.rating)
    IN  IF RowViolatesNotNull(row)
        THEN Result(bks, ErrIntegrity, {})
        ELSE Result(bks \cup {row}, Ok, {row})

(* Optional[int] / Optional[date] fields hold NoneInt, title and author    *)
(* NoneText, the others NoneStr                                             *)
IsNone(field, value) ==
    IF field \in {"start_date", "end_date", "rating"} THEN value = NoneInt
    ELSE IF field \in {"title", "author"} THEN value = NoneText
    ELSE value = NoneStr

Pick_SkipsNone(row, data, field) ==
    IF field \in data.fields_set /\ ~IsNone(field, data[field]) THEN data[field] ELSE row[field]

(* one turn of the setattr loop over model_dump(exclude_unset=True): a     *)
(* field of fields_set takes the payload's value, None included             *)
Pick(row, data, field) ==
    IF field \in data.fields_set THEN data[field] ELSE row[field]

ApplyFields(row, data) ==
    BookRow(row.id, row.user_id, Pick(row, data, "title"), Pick(row, data, "author"),
            Pick(row, data, "genre"), Pick(row, data, "start_date"),
            Pick(row, data, "end_date"), Pick(row, data, "status"),
            Pick(row, data, "notes"), Pick(row, data, "rating"))

repo_update(bks, book_id, user_id, book_data) ==
    LET found == get_by_id_and_user(bks, book_id, user_id)
    IN  IF found = {}
        THEN Result(bks, Ok, {})
        ELSE LET db_book == CHOOSE b \in found : TRUE
                 row == ApplyFields(db_book, book_data)
             IN  IF RowViolatesNotNull(row)
                 THEN Result(bks, ErrIntegrity, {})
                 ELSE Result((bks \ {db_book}) \cup {row}, Ok, {row})

repo_delete_AllOfUser(bks, book_id, user_id) ==
    LET found == get_by_id_and_user(bks, book_id, user_id)
    IN  IF found = {} THEN Result(bks, Ok, {})
        ELSE Result({b \in bks : b.user_id # user_id}, Ok, found)

(* returns False when no row matches and True after deleting the row: ret  *)
(* holds the deleted row, and {} stands for False                           *)
repo_delete(bks, book_id, user_id) ==
    LET found == get_by_id_and_user(bks, book_id, user_id)
    IN  IF found = {} THEN Result(bks, Ok, {}) ELSE Result(bks \ found, Ok, found)

delete_all_by_user_AnyOwner(bks, user_id) == Result({}, Ok, bks)

delete_all_by_user(bks, user_id) ==
    Result({b \in bks : b.user_id # user_id}, Ok, {b \in bks : b.user_id = user_id})

count_by_status(bks, user_id, status) ==
    Cardinality({b \in bks : b.user_id = user_id /\ b.status = status})

get_stats_ZeroFilled(bks, user_id) ==
    LET mine == {b \in bks : b.user_id = user_id}
    IN  [total_books |-> count_by_user(bks, user_id),
         to_read |-> count_by_status(bks, user_id, TO_READ),
         reading |-> count_by_status(bks, user_id, READING),
         completed |-> count_by_status(bks, user_id, COMPLETED),
         genres |-> [g \in BookGenre |-> Cardinality({b \in mine : b.genre = g})]]

(* the GROUP BY genre query: one (genre, count) row per genre among the     *)
(* user's books                                                             *)
genre_counts(bks, user_id) ==
    LET mine == {b \in bks : b.user_id = user_id}
    IN  [g \in {b.genre : b \in mine} |-> Cardinality({b \in mine : b.genre = g})]

(* the four counts and the genre breakdown, all read from the same table   *)
(* contents: no other request commits between the queries                   *)
get_stats(bks, user_id) ==
    [total_books |-> count_by_user(bks, user_id),
     to_read |-> count_by_status(bks, user_id, TO_READ),
     reading |-> count_by_status(bks, user_id, READING),
     completed |-> count_by_status(bks, user_id, COMPLETED),
     genres |-> genre_counts(bks, user_id)]

----------------------------------------------------------------------------
(* BookService *)

add_book_KeepsStatus(bks, book_data, user_id) ==
    IF /\ book_data.start_date # NoneInt
       /\ book_data.end_date # NoneInt
       /\ book_data.end_date < book_data.start_date
    THEN Result(bks, ErrDateOrder, {})
    ELSE IF book_data.rating # NoneInt /\ (book_data.rating < 1 \/ book_data.rating > 5)
         THEN Result(bks, ErrRating, {})
         ELSE repo_create(bks, book_data, user_id)

add_book_RejectsEqual(bks, book_data, user_id) ==
    IF /\ book_data.start_date # NoneInt
       /\ book_data.end_date # NoneInt
       /\ book_data.end_date <= book_data.start_date
    THEN Result(bks, ErrDateOrder, {})
    ELSE LET data == IF book_data.end_date # NoneInt /\ book_data.status # COMPLETED
                     THEN SetAttr(book_data, "status", COMPLETED)
                     ELSE book_data
         IN  IF data.rating # NoneInt /\ (data.rating < 1 \/ data.rating > 5)
             THEN Result(bks, ErrRating, {})
             ELSE repo_create(bks, data, user_id)

add_book(bks, book_data, user_id) ==
    IF /\ book_data.start_date # NoneInt
       /\ book_data.end_date # NoneInt
       /\ book_data.end_date < book_data.start_date
    THEN Result(bks, ErrDateOrder, {})
    ELSE LET data == IF book_data.end_date # NoneInt /\ book_data.status # COMPLETED
                     THEN SetAttr(book_data, "status", COMPLETED)
                     ELSE book_data
         IN  IF data.rating # NoneInt /\ (data.rating < 1 \/ data.rating > 5)
             THEN Result(bks, ErrRating, {})
             ELSE repo_create(bks, data, user_id)

get_book(bks, book_id, user_id) == get_by_id_and_user(bks, book_id, user_id)

(* Python's "a or b" on Optional[date]: a unless a is None *)
DateOr(a, b) == IF a # NoneInt THEN a ELSE b

update_book_NoRatingCheck(bks, book_id, user_id, book_data) ==
    LET found == get_by_id_and_user(bks, book_id, user_id)
    IN  IF found = {}
        THEN Result(bks, ErrBookNotFound, {})
        ELSE LET existing_book == CHOOSE b \in found : TRUE
                 start == DateOr(book_data.start_date, existing_book.start_date)
                 end == DateOr(book_data.end_date, existing_book.end_date)
             IN  IF start # NoneInt /\ end # NoneInt /\ end < start
                 THEN Result(bks, ErrDateOrder, {})
                 ELSE repo_update(bks, book_id, user_id, book_data)

update_book(bks, book_id, user_id, book_data) ==
    LET found == get_by_id_and_user(bks, book_id, user_id)
    IN  IF found = {}
        THEN Result(bks, ErrBookNotFound, {})
        ELSE LET existing_book == CHOOSE b \in found : TRUE
                 start == DateOr(book_data.start_date, existing_book.start_date)
                 end == DateOr(book_data.end_date, existing_book.end_date)
             IN  IF start # NoneInt /\ end # NoneInt /\ end < start
                 THEN Result(bks, ErrDateOrder, {})
                 ELSE IF /\ book_data.rating # NoneInt
                         /\ (book_data.rating < 1 \/ book_data.rating > 5)
                      THEN Result(bks, ErrRating, {})
                      ELSE repo_update(bks, book_id, user_id, book_data)

update_status_AlwaysSetsDate(bks, book_id, user_id, status, today) ==
    IF status \notin ReadingStatus
    THEN Result(bks, ErrInvalidStatus, {})
    ELSE LET found == get_by_id_and_user(bks, book_id, user_id)
         IN  IF found = {}
             THEN Result(bks, ErrBookNotFound, {})
             ELSE LET d0 == SetAttr(EmptyUpdate, "status", status)
                      d1 == IF status = READING
                            THEN SetAttr(d0, "start_date", today) ELSE d0
                      d2 == IF status = COMPLETED
                            THEN SetAttr(d1, "end_date", today) ELSE d1
                  IN  repo_update(bks, book_id, user_id, d2)

update_status(bks, book_id, user_id, status, today) ==
    IF status \notin ReadingStatus
    THEN Result(bks, ErrInvalidStatus, {})
    ELSE LET found == get_by_id_and_user(bks, book_id, user_id)
         IN  IF found = {}
             THEN Result(bks, ErrBookNotFound, {})
             ELSE LET book == CHOOSE b \in found : TRUE
                      d0 == SetAttr(EmptyUpdate, "status", status)
                      d1 == IF status = READING /\ book.start_date = NoneInt
                            THEN SetAttr(d0, "start_date", today) ELSE d0
                      d2 == IF status = COMPLETED /\ book.end_date = NoneInt
                            THEN SetAttr(d1, "end_date", today) ELSE d1
                  IN  repo_update(bks, book_id, user_id, d2)

delete_book_NoCheck(bks, book_id, user_id) == repo_delete(bks, book_id, user_id)

delete_book(bks, book_id, user_id) ==
    IF get_by_id_and_user(bks, book_id, user_id) = {}
    THEN Result(bks, ErrBookNotFound, {})
    ELSE repo_delete(bks, book_id, user_id)

delete_all_books(bks, user_id) == delete_all_by_user(bks, user_id)

(* BookListResponse(total, books) *)
get_all_books(bks, user_id, skip, limit) ==
    [total |-> count_by_user(bks, user_id),
     books |-> get_all_by_user(bks, user_id, skip, limit)]

get_books_by_status(bks, user_id, status) ==
    IF status \notin ReadingStatus
    THEN Result(bks, ErrInvalidStatus, {})
    ELSE Result(bks, Ok, get_by_status(bks, user_id, status))

get_books_by_genre(bks, user_id, genre) == Result(bks, Ok, get_by_genre(bks, user_id, genre))

(* BookStats built from the repository's dict *)
get_statistics(bks, user_id) == get_stats(bks, user_id)

search_books(bks, user_id, search_term) ==
    IF Len(search_term) < 2
    THEN Result(bks, ErrSearchTerm, {})
    ELSE Result(bks, Ok, repo_search_books(bks, user_id, search_term))

----------------------------------------------------------------------------
(* UserRepository, security.py, AuthService, UserService and the request   *)
(* authentication of dependencies.py                                        *)

UserRow(id, username, email, password_hash) ==
    [id |-> id, username |-> username, email |-> email, password_hash |-> password_hash]

(* INTEGER PRIMARY KEY of the users table: the next rowid *)
NewUserId(us) == IF us = {} THEN 1 ELSE SetMax({u.id : u \in us}) + 1

get_by_id(us, user_id) == {u \in us : u.id = user_id}

get_by_email(us, email) == {u \in us : u.email = email}

get_by_username(us, username) == {u \in us : u.username = username}

(* bcrypt: the hash carries its salt; verify re-hashes with that salt *)
hash_password(password, salt) == [salt |-> salt, password |-> password]

verify_password(plain_password, hashed_password) == hashed_password.password = plain_password

create_access_token_NoUserId(data, now) ==
    [sub |-> data.sub, user_id |-> NoneInt, exp |-> now + ACCESS_TOKEN_EXPIRE_MINUTES,
     key |-> SECRET_KEY]

(* jwt.encode: the claims of data and exp, signed with SECRET_KEY *)
create_access_token(data, now) ==
    [sub |-> data.sub, user_id |-> data.user_id, exp |-> now + ACCESS_TOKEN_EXPIRE_MINUTES,
     key |-> SECRET_KEY]

(* jwt.decode raises JWTError on a signature made with another key and on  *)
(* exp < now; the result is None ({}) then and when sub or user_id is      *)
(* missing                                                                  *)
decode_token(token, now) ==
    IF token.key # SECRET_KEY \/ token.exp < now
    THEN {}
    ELSE IF token.sub = NoneStr \/ token.user_id = NoneInt
         THEN {}
         ELSE {[user_id |-> token.user_id, email |-> token.sub]}

AuthResult(us, err, user, token) == [users |-> us, error |-> err, user |-> user, token |-> token]

UniqueViolation_UsernameOnly(us, row) ==
    \E u \in us : u.id # row.id /\ u.username = row.username

(* unique=True on users.username and users.email: a commit that leaves two *)
(* rows with the same username or the same email fails                      *)
UniqueViolation(us, row) ==
    \E u \in us : u.id # row.id /\ (u.username = row.username \/ u.email = row.email)

(* db.add + db.commit *)
user_create(us, username, email, password_hash) ==
    LET row == UserRow(NewUserId(us), username, email, password_hash)
    IN  IF UniqueViolation(us, row)
        THEN AuthResult(us, ErrIntegrity, {}, {})
        ELSE AuthResult(us \cup {row}, Ok, {row}, {})

(* UserRepository.update: the provided (non-None) fields are set, then     *)
(* committed                                                                *)
user_update(us, user_id, user_data) ==
    LET found == get_by_id(us, user_id)
    IN  IF found = {}
        THEN AuthResult(us, Ok, {}, {})
        ELSE LET db_user == CHOOSE u \in found : TRUE
                 row == UserRow(db_user.id,
                                IF user_data.username # NoneStr THEN user_data.username
                                ELSE db_user.username,
                                IF user_data.email # NoneStr THEN user_data.email
                                ELSE db_user.email,
                                db_user.password_hash)
             IN  IF UniqueViolation(us, row)
                 THEN AuthResult(us, ErrIntegrity, {}, {})
                 ELSE AuthResult((us \ {db_user}) \cup {row}, Ok, {row}, {})

(* the stored hash of the user is replaced *)
update_password(us, user_id, new_password_hash) ==
    {IF u.id = user_id THEN [u EXCEPT !.password_hash = new_password_hash] ELSE u : u \in us}

(* db.delete(db_user) + db.commit: the books relationship cascades          *)
(* "all, delete-orphan", so the user's books are deleted with the user      *)
user_delete(us, bks, user_id) ==
    [users |-> {u \in us : u.id # user_id},
     books |-> IF get_by_id(us, user_id) = {} THEN bks
               ELSE {b \in bks : b.user_id # user_id}]

(* the part of register that runs after the two existence checks *)
register_insert(us, user_data, salt, now) ==
    LET created == user_create(us, user_data.username, user_data.email,
                               hash_password(user_data.password, salt))
    IN  IF created.error # Ok
        THEN created
        ELSE LET user == CHOOSE u \in created.user : TRUE
             IN  AuthResult(created.users, Ok, {user},
                            {create_access_token([sub |-> user.email, user_id |-> user.id],
                                                 now)})

register_UsernameFirst(us, user_data, salt, now) ==
    IF get_by_username(us, user_data.username) # {}
    THEN AuthResult(us, ErrUsernameTaken, {}, {})
    ELSE IF get_by_email(us, user_data.email) # {}
         THEN AuthResult(us, ErrEmailTaken, {}, {})
         ELSE register_insert(us, user_data, salt, now)

(* the two existence checks of register *)
register_check(us, user_data) ==
    IF get_by_email(us, user_data.email) # {}
    THEN ErrEmailTaken
    ELSE IF get_by_username(us, user_data.username) # {}
         THEN ErrUsernameTaken
         ELSE Ok

register(us, user_data, salt, now) ==
    IF get_by_email(us, user_data.email) # {}
    THEN AuthResult(us, ErrEmailTaken, {}, {})
    ELSE IF get_by_username(us, user_data.username) # {}
         THEN AuthResult(us, ErrUsernameTaken, {}, {})
         ELSE register_insert(us, user_data, salt, now)

login_TellsUnknownEmail(us, login_data, now) ==
    LET found == get_by_email(us, login_data.email)
    IN  IF found = {}
        THEN AuthResult(us, ErrUserNotFound, {}, {})
        ELSE LET user == CHOOSE u \in found : TRUE
             IN  IF ~verify_password(login_data.password, user.password_hash)
                 THEN AuthResult(us, ErrInvalidCredentials, {}, {})
                 ELSE AuthResult(us, Ok, {user},
                                 {create_access_token([sub |-> user.email,
                                                       user_id |-> user.id], now)})

login(us, login_data, now) ==
    LET found == get_by_email(us, login_data.email)
    IN  IF found = {}
        THEN AuthResult(us, ErrInvalidCredentials, {}, {})
        ELSE LET user == CHOOSE u \in found : TRUE
             IN  IF ~verify_password(login_data.password, user.password_hash)
                 THEN AuthResult(us, ErrInvalidCredentials, {}, {})
                 ELSE AuthResult(us, Ok, {user},
                                 {create_access_token([sub |-> user.email,
                                                       user_id |-> user.id], now)})

update_profile_NoSelfCheck(us, user_id, user_data) ==
    LET found == get_by_id(us, user_id)
    IN  IF found = {}
        THEN AuthResult(us, ErrUserNotFound, {}, {})
        ELSE IF user_data.email # NoneStr /\ get_by_email(us, user_data.email) # {}
             THEN AuthResult(us, ErrEmailTaken, {}, {})
             ELSE IF /\ user_data.username # NoneStr
                     /\ get_by_username(us, user_data.username) # {}
                  THEN AuthResult(us, ErrUsernameTaken, {}, {})
                  ELSE user_update(us, user_id, user_data)

update_profile(us, user_id, user_data) ==
    LET found == get_by_id(us, user_id)
    IN  IF found = {}
        THEN AuthResult(us, ErrUserNotFound, {}, {})
        ELSE LET current_user == CHOOSE u \in found : TRUE
             IN  IF /\ user_data.email # NoneStr
                    /\ user_data.email # current_user.email
                    /\ get_by_email(us, user_data.email) # {}
                 THEN AuthResult(us, ErrEmailTaken, {}, {})
                 ELSE IF /\ user_data.username # NoneStr
                         /\ user_data.username # current_user.username
                         /\ get_by_username(us, user_data.username) # {}
                      THEN AuthResult(us, ErrUsernameTaken, {}, {})
                      ELSE user_update(us, user_id, user_data)

change_password_NoVerify(us, user_id, current_password, new_password, salt) ==
    LET found == get_by_id(us, user_id)
    IN  IF found = {}
        THEN AuthResult(us, ErrUserNotFound, {}, {})
        ELSE AuthResult(update_password(us, user_id, hash_password(new_password, salt)),
                        Ok, {}, {})

change_password(us, user_id, current_password, new_password, salt) ==
    LET found == get_by_id(us, user_id)
    IN  IF found = {}
        THEN AuthResult(us, ErrUserNotFound, {}, {})
        ELSE LET user == CHOOSE u \in found : TRUE
             IN  IF ~verify_password(current_password, user.password_hash)
                 THEN AuthResult(us, ErrCurrentPassword, {}, {})
                 ELSE AuthResult(update_password(us, user_id,
                                                 hash_password(new_password, salt)),
                                 Ok, {}, {})

(* the outcome of delete_account: both tables and the error *)
AccountResult(us, bks, err) == [users |-> us, books |-> bks, error |-> err]

delete_account_KeepsBooks(us, bks, user_id, password) ==
    LET found == get_by_id(us, user_id)
    IN  IF found = {}
        THEN AccountResult(us, bks, ErrUserNotFound)
        ELSE LET user == CHOOSE u \in found : TRUE
             IN  IF ~verify_password(password, user.password_hash)
                 THEN AccountResult(us, bks, ErrPasswordIncorrect)
                 ELSE AccountResult(user_delete(us, bks, user_id).users, bks, Ok)

delete_account(us, bks, user_id, password) ==
    LET found == get_by_id(us, user_id)
    IN  IF found = {}
        THEN AccountResult(us, bks, ErrUserNotFound)
        ELSE LET user == CHOOSE u \in found : TRUE
             IN  IF ~verify_password(password, user.password_hash)
                 THEN AccountResult(us, bks, ErrPasswordIncorrect)
                 ELSE LET d == user_delete(us, bks, user_id)
                      IN  AccountResult(d.users, d.books, Ok)

(* OAuth2PasswordBearer: the bearer token of the Authorization header; a   *)
(* request without one is answered 401 before the dependant is called       *)
oauth2_scheme(authorization) ==
    IF authorization = NoHeader
    THEN [error |-> ErrNotAuthenticated, token |-> {}]
    ELSE [error |-> Ok, token |-> {authorization}]

(* the outcome of an identity resolution: the HTTPException raised (Ok when *)
(* none) and the user returned ({} for None)                                *)
Identity(err, user) == [error |-> err, user |-> user]

get_current_user(us, token, now) ==
    LET token_data == decode_token(token, now)
    IN  IF token_data = {}
        THEN Identity(ErrCredentials, {})
        ELSE LET td == CHOOSE t \in token_data : TRUE
                 user == {u \in us : u.id = td.user_id}
             IN  IF user = {} THEN Identity(ErrCredentials, {}) ELSE Identity(Ok, user)

(* try: return get_current_user(token, db) / except HTTPException: None *)
get_current_user_optional(us, token, now) ==
    LET r == get_current_user(us, token, now)
    IN  IF r.error # Ok THEN Identity(Ok, {}) ELSE r

(* a request to an endpoint that depends on get_current_user: FastAPI      *)
(* resolves the token dependency first                                      *)
resolve_protected(us, authorization, now) ==
    LET t == oauth2_scheme(authorization)
    IN  IF t.error # Ok
        THEN Identity(t.error, {})
        ELSE get_current_user(us, CHOOSE x \in t.token : TRUE, now)

(* a request to an endpoint that depends on get_current_user_optional *)
resolve_optional(us, authorization, now) ==
    LET t == oauth2_scheme(authorization)
    IN  IF t.error # Ok
        THEN Identity(t.error, {})
        ELSE get_current_user_optional(us, CHOOSE x \in t.token : TRUE, now)

----------------------------------------------------------------------------
(* Requests the model issues *)

(* a BookCreate built from the supplied values *)
CreatePayload(t, a, g, sd, ed, st, n, r) ==
    Payload({"title", "author", "genre"}
              \cup (IF sd # NoneInt THEN {"start_date"} ELSE {})
              \cup (IF ed # NoneInt THEN {"end_date"} ELSE {})
              \cup (IF st # NoneStr THEN {"status"} ELSE {})
              \cup (IF n # NoneStr THEN {"notes"} ELSE {})
              \cup (IF r # NoneInt THEN {"rating"} ELSE {}),
            t, a, g, sd, ed, st, n, r)

(* BookCreate objects that differ in dates and requested status *)
DateCreates ==
    {CreatePayload(t, a, "Fiction", sd, ed, st, NoneStr, NoneInt) :
        t \in Titles, a \in Authors, sd \in OptDates, ed \in OptDates,
        st \in ReadingStatus \cup {NoneStr}}

(* BookCreate objects that differ in genre, notes and rating *)
FieldCreates ==
    {CreatePayload(t, a, g, NoneInt, NoneInt, NoneStr, n, r) :
        t \in Titles, a \in Authors, g \in GenreInputs,
        n \in NotesInputs \cup {NoneStr}, r \in RatingInputs \cup {NoneInt}}

(* the values a BookUpdate may carry for a field, None included *)
PatchValues(field) ==
    CASE field = "title" -> Titles \cup {NoneText}
      [] field = "author" -> Authors \cup {NoneText}
      [] field = "genre" -> GenreInputs \cup {NoneStr}
      [] field = "start_date" -> OptDates
      [] field = "end_date" -> OptDates
      [] field = "status" -> ReadingStatus \cup {NoneStr}
      [] field = "notes" -> NotesInputs \cup {NoneStr}
      [] field = "rating" -> RatingInputs \cup {NoneInt}

(* every BookUpdate whose supplied fields are fs *)
PatchesOver(fs) ==
    {Payload(fs, t, a, g, sd, ed, st, n, r) :
        t \in (IF "title" \in fs THEN PatchValues("title") ELSE {NoneText}),
        a \in (IF "author" \in fs THEN PatchValues("author") ELSE {NoneText}),
        g \in (IF "genre" \in fs THEN PatchValues("genre") ELSE {NoneStr}),
        sd \in (IF "start_date" \in fs THEN PatchValues("start_date") ELSE {NoneInt}),
        ed \in (IF "end_date" \in fs THEN PatchValues("end_date") ELSE {NoneInt}),
        st \in (IF "status" \in fs THEN PatchValues("status") ELSE {NoneStr}),
        n \in (IF "notes" \in fs THEN PatchValues("notes") ELSE {NoneStr}),
        r \in (IF "rating" \in fs THEN PatchValues("rating") ELSE {NoneInt})}

(* BookUpdate objects over the date and status fields *)
DatePatches ==
    UNION {PatchesOver(fs) : fs \in SUBSET {"start_date", "end_date", "status"}}

(* BookUpdate objects over all fields, at most MaxPatchFields supplied *)
FieldPatches ==
    UNION {PatchesOver(fs) : fs \in {x \in SUBSET BookFields : Cardinality(x) <= MaxPatchFields}}

----------------------------------------------------------------------------
(* State: the two tables, and the last call with its arguments, its        *)
(* outcome and the tables as they were before it                            *)

NoUserData == [username |-> "", email |-> "", password |-> ""]

(* the BookStats of a call that returned none *)
NoStats == [total_books |-> 0, to_read |-> 0, reading |-> 0, completed |-> 0, genres |-> <<>>]

Log(op, user_id, book_id, data, arg, today, error, ret) ==
    [op |-> op, user_id |-> user_id, book_id |-> book_id, data |-> data, arg |-> arg,
     today |-> today, user_data |-> NoUserData, error |-> error, ret |-> ret, token |-> {},
     count |-> NoneInt, stats |-> NoStats, now |-> NoneInt,
     books_before |-> books, users_before |-> users]

AuthLog(op, user_data, res) ==
    [op |-> op, user_id |-> 0, book_id |-> 0, data |-> EmptyUpdate, arg |-> NoneStr,
     today |-> NoneInt, user_data |-> user_data, error |-> res.error, ret |-> res.user,
     token |-> res.token, count |-> NoneInt, stats |-> NoStats, now |-> NoneInt,
     books_before |-> books, users_before |-> users]

(* the log of a user service call or of an identity resolution *)
UserLog(op, user_id, user_data, arg, now, res) ==
    [AuthLog(op, user_data, res) EXCEPT !.user_id = user_id, !.arg = arg, !.now = now]

CallerIds == {u.id : u \in users}

(* the id of the single row a call returned, 0 when it returned none *)
RetId(ret) == IF ret = {} THEN 0 ELSE (CHOOSE b \in ret : TRUE).id

AddBook(cap, inputs) ==
    \E user_id \in CallerIds, book_data \in inputs :
        /\ NewBookId(books) <= cap
        /\ LET r == add_book(books, book_data, user_id)
           IN  /\ books' = r.books
               /\ last' = Log("add_book", user_id, RetId(r.ret), book_data, NoneStr,
                              NoneInt, r.error, r.ret)
        /\ UNCHANGED <<users, inflight>>

UpdateBook(patches) ==
    \E user_id \in CallerIds, book_id \in BookIds, book_data \in patches :
        /\ LET r == update_book(books, book_id, user_id, book_data)
           IN  /\ books' = r.books
               /\ last' = Log("update_book", user_id, book_id, book_data, NoneStr,
                              NoneInt, r.error, r.ret)
        /\ UNCHANGED <<users, inflight>>

(* today is date.today() at the time of the call *)
UpdateStatus(statuses, todays) ==
    \E user_id \in CallerIds, book_id \in BookIds, status \in statuses, today \in todays :
        /\ LET r == update_status(books, book_id, user_id, status, today)
           IN  /\ books' = r.books
               /\ last' = Log("update_status", user_id, book_id, EmptyUpdate, status,
                              today, r.error, r.ret)
        /\ UNCHANGED <<users, inflight>>

DeleteBook ==
    \E user_id \in CallerIds, book_id \in BookIds :
        /\ LET r == delete_book(books, book_id, user_id)
           IN  /\ books' = r.books
               /\ last' = Log("delete_book", user_id, book_id, EmptyUpdate, NoneStr,
                              NoneInt, r.error, r.ret)
        /\ UNCHANGED <<users, inflight>>

GetBook ==
    \E user_id \in CallerIds, book_id \in BookIds :
        /\ last' = Log("get_book", user_id, book_id, EmptyUpdate, NoneStr, NoneInt, Ok,
                       get_book(books, book_id, user_id))
        /\ UNCHANGED <<users, books, inflight>>

DeleteAllBooks ==
    \E user_id \in CallerIds :
        /\ LET r == delete_all_books(books, user_id)
           IN  /\ books' = r.books
               /\ last' = [Log("delete_all_books", user_id, 0, EmptyUpdate, NoneStr,
                               NoneInt, r.error, r.ret)
                             EXCEPT !.count = Cardinality(r.ret)]
        /\ UNCHANGED <<users, inflight>>

ListBooks ==
    \E user_id \in CallerIds, skip \in 0..1, limit \in 1..MaxBooks :
        /\ LET r == get_all_books(books, user_id, skip, limit)
           IN  last' = [Log("get_all_books", user_id, 0, EmptyUpdate, NoneStr, NoneInt,
                            Ok, r.books)
                          EXCEPT !.count = r.total, !.arg = <<skip, limit>>]
        /\ UNCHANGED <<users, books, inflight>>

ListByStatus ==
    \E user_id \in CallerIds, status \in StatusInputs :
        /\ LET r == get_books_by_status(books, user_id, status)
           IN  last' = Log("get_books_by_status", user_id, 0, EmptyUpdate, status,
                           NoneInt, r.error, r.ret)
        /\ UNCHANGED <<users, books, inflight>>

ListByGenre ==
    \E user_id \in CallerIds, genre \in GenreInputs :
        /\ LET r == get_books_by_genre(books, user_id, genre)
           IN  last' = Log("get_books_by_genre", user_id, 0, EmptyUpdate, genre,
                           NoneInt, r.error, r.ret)
        /\ UNCHANGED <<users, books, inflight>>

Search ==
    \E user_id \in CallerIds, search_term \in SearchTerms :
        /\ LET r == search_books(books, user_id, search_term)
           IN  last' = Log("search_books", user_id, 0, EmptyUpdate, search_term,
                           NoneInt, r.error, r.ret)
        /\ UNCHANGED <<users, books, inflight>>

GetStatistics ==
    \E user_id \in CallerIds :
        /\ last' = [Log("get_statistics", user_id, 0, EmptyUpdate, NoneStr, NoneInt, Ok, {})
                      EXCEPT !.stats = get_statistics(books, user_id)]
        /\ UNCHANGED <<users, books, inflight>>

Register ==
    \E username \in Usernames, email \in Emails, password \in Passwords, salt \in Salts,
       now \in IssueTimes :
        /\ LET user_data == [username |-> username, email |-> email, password |-> password]
               r == register(users, user_data, salt, now)
           IN  /\ Cardinality(r.users) <= MaxUsers
               /\ users' = r.users
               /\ last' = [AuthLog("register", user_data, r) EXCEPT !.now = now]
        /\ UNCHANGED <<books, inflight>>

(* a client between requests, and what a request in progress has so far:   *)
(* its position, the registration data, the caller id resolved for it, the *)
(* counts get_stats has collected and the token the client holds            *)
IdleCall ==
    [pc |-> "idle", user_data |-> NoUserData, user_id |-> 0, stats |-> NoStats, token |-> {}]

(* a register call runs its two existence checks; it ends here when one    *)
(* of them raises                                                           *)
RegisterCheck(usernames, emails) ==
    \E c \in Calls, username \in usernames, email \in emails, password \in Passwords :
        /\ inflight[c].pc = "idle"
        /\ LET user_data == [username |-> username, email |-> email, password |-> password]
               err == register_check(users, user_data)
           IN  IF err # Ok
               THEN /\ last' = AuthLog("register", user_data, AuthResult(users, err, {}, {}))
                    /\ UNCHANGED inflight
               ELSE /\ inflight' = [inflight EXCEPT ![c] = [IdleCall EXCEPT
                                                              !.pc = "checked",
                                                              !.user_data = user_data]]
                    /\ UNCHANGED last
        /\ UNCHANGED <<users, books>>

(* a register call that passed its checks hashes, inserts and issues the   *)
(* token                                                                    *)
RegisterInsert ==
    \E c \in Calls, salt \in Salts, now \in IssueTimes :
        /\ inflight[c].pc = "checked"
        /\ LET r == register_insert(users, inflight[c].user_data, salt, now)
           IN  /\ Cardinality(r.users) <= MaxUsers
               /\ users' = r.users
               /\ last' = [AuthLog("register", inflight[c].user_data, r) EXCEPT !.now = now]
        /\ inflight' = [inflight EXCEPT ![c] = IdleCall]
        /\ UNCHANGED books

Login ==
    \E email \in Emails, password \in LoginPasswords, now \in IssueTimes :
        /\ LET login_data == [username |-> "", email |-> email, password |-> password]
           IN  last' = UserLog("login", 0, login_data, NoneStr, now,
                               login(users, login_data, now))
        /\ UNCHANGED <<users, books, inflight>>

(* the ids a user service call may be made for: the stored ones and one    *)
(* that no user has                                                         *)
TargetIds == 1..(MaxUsers + 1)

UpdateProfile ==
    \E user_id \in TargetIds, user_data \in ProfilePatches :
        /\ LET r == update_profile(users, user_id, user_data)
           IN  /\ users' = r.users
               /\ last' = UserLog("update_profile", user_id,
                                  [username |-> user_data.username,
                                   email |-> user_data.email, password |-> ""],
                                  NoneStr, NoneInt, r)
        /\ UNCHANGED <<books, inflight>>

ChangePassword ==
    \E user_id \in TargetIds, current_password \in LoginPasswords,
       new_password \in LoginPasswords, salt \in Salts :
        /\ LET r == change_password(users, user_id, current_password, new_password, salt)
           IN  /\ users' = r.users
               /\ last' = UserLog("change_password", user_id,
                                  [username |-> "", email |-> "",
                                   password |-> current_password],
                                  new_password, NoneInt, r)
        /\ UNCHANGED <<books, inflight>>

DeleteAccount(passwords) ==
    \E user_id \in TargetIds, password \in passwords :
        /\ LET r == delete_account(users, books, user_id, password)
           IN  /\ users' = r.users
               /\ books' = r.books
               /\ last' = UserLog("delete_account", user_id,
                                  [username |-> "", email |-> "", password |-> password],
                                  NoneStr, NoneInt, AuthResult(r.users, r.error, {}, {}))
        /\ UNCHANGED inflight

GetCurrentUser ==
    \E authorization \in AuthorizationInputs, now \in ResolveTimes :
        /\ LET r == resolve_protected(users, authorization, now)
           IN  last' = UserLog("get_current_user", 0, NoUserData, NoneStr, now,
                               AuthResult(users, r.error, r.user, {authorization}))
        /\ UNCHANGED <<users, books, inflight>>

GetCurrentUserOptional ==
    \E authorization \in AuthorizationInputs, now \in ResolveTimes :
        /\ LET r == resolve_optional(users, authorization, now)
           IN  last' = UserLog("get_current_user_optional", 0, NoUserData, NoneStr, now,
                               AuthResult(users, r.error, r.user, {authorization}))
        /\ UNCHANGED <<users, books, inflight>>

----------------------------------------------------------------------------
(* Specifications *)

(* two accounts registered earlier, in this order *)
RegisteredUsers ==
    {UserRow(1, "alice", "a@x.com", hash_password("pw123456", 1)),
     UserRow(2, "bob", "b@x.com", hash_password("pw123456", 1))}

(* no request in flight *)
NoCalls == [c \in Calls |-> IdleCall]

InitLog ==
    [op |-> "init", user_id |-> 0, book_id |-> 0, data |-> EmptyUpdate, arg |-> NoneStr,
     today |-> NoneInt, user_data |-> NoUserData, error |-> Ok, ret |-> {}, token |-> {},
     count |-> NoneInt, stats |-> NoStats, now |-> NoneInt,
     books_before |-> {}, users_before |-> {}]

(* the book service used by one registered user: dates and status *)
Init ==
    /\ users = {u \in RegisteredUsers : u.id = 1}
    /\ books = {}
    /\ inflight = NoCalls
    /\ last = InitLog

Next ==
    \/ AddBook(MaxDatedBooks, DateCreates)
    \/ UpdateBook(DatePatches)
    \/ UpdateStatus(StatusInputs, Dates)
    \/ DeleteBook
    \/ GetBook

Spec == Init /\ [][Next]_vars

(* BookCreate / BookUpdate objects of the two-user specification *)
OwnerCreates ==
    {CreatePayload(t, a, g, NoneInt, NoneInt, NoneStr, NoneStr, NoneInt) :
        t \in Titles, a \in Authors, g \in GenreInputs}

OwnerPatches == PatchesOver({}) \cup PatchesOver({"notes"})

(* the book service used by two registered users *)
InitOwner ==
    /\ users = RegisteredUsers
    /\ books = {}
    /\ inflight = NoCalls
    /\ last = InitLog

NextOwner ==
    \/ AddBook(MaxBooks, OwnerCreates)
    \/ UpdateBook(OwnerPatches)
    \/ UpdateStatus({READING, "Unknown"}, {1})
    \/ DeleteBook
    \/ DeleteAllBooks
    \/ GetBook
    \/ ListBooks
    \/ ListByStatus
    \/ ListByGenre
    \/ Search

SpecOwner == InitOwner /\ [][NextOwner]_vars

(* one user's book, patched one field at a time over every field *)
NextFields ==
    \/ AddBook(MaxDatedBooks, FieldCreates)
    \/ UpdateBook(FieldPatches)
    \/ DeleteBook

SpecFields == Init /\ [][NextFields]_vars

(* registration on an empty users table *)
InitAuth ==
    /\ users = {}
    /\ books = {}
    /\ inflight = NoCalls
    /\ last = InitLog

NextAuth == Register \/ Login

SpecAuth == InitAuth /\ [][NextAuth]_vars

(* accounts created by concurrent register calls, renamed and deleted *)
NextProfile ==
    \/ RegisterCheck({"alice", "bob"}, {"a@x.com", "b@x.com"})
    \/ RegisterInsert
    \/ UpdateProfile
    \/ DeleteAccount(Passwords)

SpecProfile == InitAuth /\ [][NextProfile]_vars

(* two users with books who log in, change their passwords and delete      *)
(* their accounts                                                           *)
NextAccount ==
    \/ AddBook(MaxBooks, OwnerCreates)
    \/ ChangePassword
    \/ Login
    \/ DeleteAccount(LoginPasswords)

SpecAccount == InitOwner /\ [][NextAccount]_vars

(* requests authenticated against two accounts that may be deleted *)
NextIdentity ==
    \/ GetCurrentUser
    \/ GetCurrentUserOptional
    \/ DeleteAccount(Passwords)

SpecIdentity == InitOwner /\ [][NextIdentity]_vars

(* two users' collections: bulk deletion, listing and statistics *)
NextShelf ==
    \/ AddBook(MaxBooks, OwnerCreates)
    \/ UpdateStatus(ReadingStatus, {1})
    \/ DeleteAllBooks
    \/ ListBooks
    \/ GetStatistics

SpecShelf == InitOwner /\ [][NextShelf]_vars

----------------------------------------------------------------------------
(* Properties *)

(* the row the last call returned, when it returned exactly one *)
LastRow == CHOOSE b \in last.ret : TRUE

(* the rows matching the last call's (book id, caller) before the call *)
TargetBefore == get_by_id_and_user(last.books_before, last.book_id, last.user_id)

DatesOrdered(b) ==
    (b.start_date # NoneInt /\ b.end_date # NoneInt) => b.end_date >= b.start_date

(* C1: every stored book that has both a start date and an end date has   *)
(* end date >= start date, after any sequence of add_book, update_book and *)
(* update_status calls with any dates and any current date.                *)
C1_EndNotBeforeStart == \A b \in books : DatesOrdered(b)

(* C2: reads are owner-scoped: get_book returns only a row of the caller   *)
(* and returns none for a book id that belongs to another user; the list,  *)
(* status, genre and search reads return only rows of the caller.          *)
C2_ReadsOwnerScoped ==
    /\ last.op = "get_book" =>
          /\ \A b \in last.ret : b.user_id = last.user_id /\ b.id = last.book_id
          /\ (\E b \in books : b.id = last.book_id /\ b.user_id # last.user_id)
                => last.ret = {}
          /\ (\E b \in books : b.id = last.book_id /\ b.user_id = last.user_id)
                => last.ret # {}
    /\ last.op \in {"get_all_books", "get_books_by_status", "get_books_by_genre",
                    "search_books"}
          => \A b \in last.ret : b \in books /\ b.user_id = last.user_id

C2_Witness ==
    /\ last.op = "get_book"
    /\ \E b \in books : b.id = last.book_id /\ b.user_id # last.user_id
    /\ last.ret = {}

(* C3: update_book, update_status with a recognized status and delete_book *)
(* called on a book id owned by another user end exactly as on a book id   *)
(* that does not exist: "Book not found", nothing returned, and the books  *)
(* table unchanged.                                                        *)
C3_NotFoundIndistinguishable ==
    /\ (/\ last.op \in {"update_book", "update_status", "delete_book"}
        /\ last.op = "update_status" => last.arg \in ReadingStatus
        /\ TargetBefore = {})
          => /\ last.error = ErrBookNotFound
             /\ last.ret = {}
             /\ books = last.books_before
    /\ \A user_id \in CallerIds, theirs \in BookIds, absent \in BookIds :
          (/\ \E b \in books : b.id = theirs /\ b.user_id # user_id
           /\ \A b \in books : b.id # absent)
          => /\ \A p \in OwnerPatches :
                   /\ update_book(books, theirs, user_id, p)
                        = update_book(books, absent, user_id, p)
                   /\ update_book(books, theirs, user_id, p)
                        = Result(books, ErrBookNotFound, {})
             /\ \A st \in ReadingStatus, today \in Dates :
                   /\ update_status(books, theirs, user_id, st, today)
                        = update_status(books, absent, user_id, st, today)
                   /\ update_status(books, theirs, user_id, st, today)
                        = Result(books, ErrBookNotFound, {})
             /\ delete_book(books, theirs, user_id) = delete_book(books, absent, user_id)
             /\ delete_book(books, theirs, user_id) = Result(books, ErrBookNotFound, {})

C3_Witness ==
    /\ last.op = "update_book"
    /\ last.error = ErrBookNotFound
    /\ \E b \in last.books_before : b.id = last.book_id /\ b.user_id # last.user_id
    /\ \E absent \in BookIds : \A b \in books : b.id # absent
    /\ books = last.books_before

CreateOtherwiseValid(d) ==
    /\ d.title # NoneText /\ d.author # NoneText /\ d.genre # NoneStr
    /\ d.rating = NoneInt \/ d.rating \in 1..5

RowBefore == CHOOSE b \in TargetBefore : TRUE

(* a BookUpdate that leaves the dates alone and nulls no NOT NULL column *)
PatchOtherwiseValid(d) ==
    /\ d.fields_set \cap {"start_date", "end_date"} = {}
    /\ \A f \in d.fields_set \cap NotNullFields : ~IsNone(f, d[f])

(* C6: a rating outside 1..5 makes add_book and update_book fail and leaves *)
(* the books table unchanged; a rating of exactly 1 or exactly 5 is        *)
(* accepted and stored; every stored rating is absent or in 1..5.          *)
C6_RatingRange ==
    /\ (/\ last.op \in {"add_book", "update_book"}
        /\ last.data.rating # NoneInt
        /\ last.data.rating \notin 1..5)
          => /\ last.error # Ok
             /\ last.ret = {}
             /\ books = last.books_before
    /\ (/\ last.op = "add_book"
        /\ last.data.rating \in {1, 5}
        /\ DatesOrdered(last.data)
        /\ CreateOtherwiseValid(last.data))
          => /\ last.error = Ok
             /\ LastRow \in books
             /\ LastRow.rating = last.data.rating
    /\ (/\ last.op = "update_book"
        /\ "rating" \in last.data.fields_set
        /\ last.data.rating \in {1, 5}
        /\ TargetBefore # {}
        /\ DatesOrdered(RowBefore)
        /\ PatchOtherwiseValid(last.data))
          => /\ last.error = Ok
             /\ LastRow \in books
             /\ LastRow.rating = last.data.rating
    /\ \A b \in books : b.rating = NoneInt \/ b.rating \in 1..5

C6_Witness ==
    /\ last.op = "update_book"
    /\ TargetBefore # {}
    /\ "rating" \in last.data.fields_set
    /\ last.data.rating = 6
    /\ last.error = ErrRating
    /\ books = last.books_before
    /\ \E b \in books : b.rating = 5

(* C7: update_status on an owned book with a recognized status s sets the  *)
(* status to s; the start date becomes the current date when s is Reading  *)
(* and the start date was unset, the end date becomes the current date     *)
(* when s is Completed and the end date was unset, and otherwise both      *)
(* dates keep their previous values, so a date that is set never changes.  *)
C7_UpdateStatusDates ==
    (/\ last.op = "update_status"
     /\ last.arg \in ReadingStatus
     /\ TargetBefore # {})
      => /\ last.error = Ok
         /\ last.ret # {}
         /\ books = (last.books_before \ TargetBefore) \cup last.ret
         /\ LastRow.id = last.book_id
         /\ LastRow.user_id = last.user_id
         /\ LastRow.status = last.arg
         /\ LastRow.start_date =
               (IF last.arg = READING /\ RowBefore.start_date = NoneInt
                THEN last.today ELSE RowBefore.start_date)
         /\ LastRow.end_date =
               (IF last.arg = COMPLETED /\ RowBefore.end_date = NoneInt
                THEN last.today ELSE RowBefore.end_date)

C7_Witness ==
    /\ last.op = "update_status"
    /\ last.arg = READING
    /\ TargetBefore # {}
    /\ RowBefore.start_date = NoneInt
    /\ RowBefore.end_date # NoneInt
    /\ RowBefore.end_date # last.today
    /\ last.error = Ok
    /\ LastRow.start_date = last.today
    /\ LastRow.end_date = RowBefore.end_date

(* C8: a successful update_book applies exactly the fields supplied in the *)
(* BookUpdate: a field that was not supplied keeps its previous value, a   *)
(* supplied field takes the supplied value, None included, and the book's  *)
(* id and owner do not change.                                             *)
C8_PartialUpdate ==
    (last.op = "update_book" /\ last.error = Ok)
      => /\ TargetBefore # {}
         /\ last.ret # {}
         /\ LastRow \in books
         /\ LastRow.id = RowBefore.id
         /\ LastRow.user_id = RowBefore.user_id
         /\ \A f \in BookFields :
               LastRow[f] = (IF f \in last.data.fields_set THEN last.data[f]
                             ELSE RowBefore[f])

C8_Witness ==
    /\ last.op = "update_book"
    /\ last.error = Ok
    /\ last.data.fields_set = {"notes"}
    /\ last.data.notes = NoneStr
    /\ RowBefore.notes # NoneStr
    /\ RowBefore.rating # NoneInt
    /\ LastRow.notes = NoneStr
    /\ LastRow.rating = RowBefore.rating

(* the effective value of a date field: the BookUpdate's value when the    *)
(* field was supplied, None included, and the stored value otherwise       *)
Effective(d, row, field) == IF field \in d.fields_set THEN d[field] ELSE row[field]

(* C9: update_book on an owned book fails with the date-order error        *)
(* exactly when the effective start date and the effective end date are    *)
(* both set and effective end < effective start; on that failure the book  *)
(* is unchanged.                                                           *)
C9_EffectiveDateOrder ==
    (last.op = "update_book" /\ TargetBefore # {})
      => LET start == Effective(last.data, RowBefore, "start_date")
             end == Effective(last.data, RowBefore, "end_date")
         IN  /\ last.error = ErrDateOrder
                  <=> (start # NoneInt /\ end # NoneInt /\ end < start)
             /\ last.error = ErrDateOrder => books = last.books_before

(* C10: register with an email that is already registered fails with the   *)
(* email conflict whatever the username is, also when the username is      *)
(* taken too; register with a new email and a taken username fails with    *)
(* the username conflict; in both cases no user is created and no token is *)
(* issued.                                                                 *)
C10_RegisterConflicts ==
    last.op = "register" =>
        LET email_taken == \E u \in last.users_before : u.email = last.user_data.email
            username_taken ==
                \E u \in last.users_before : u.username = last.user_data.username
        IN  /\ email_taken => last.error = ErrEmailTaken
            /\ (~email_taken /\ username_taken) => last.error = ErrUsernameTaken
            /\ (email_taken \/ username_taken)
                  => /\ users = last.users_before
                     /\ last.ret = {}
                     /\ last.token = {}

C10_Witness ==
    /\ last.op = "register"
    /\ \E u \in last.users_before : u.email = last.user_data.email
    /\ \E u \in last.users_before : u.username = last.user_data.username
    /\ last.error = ErrEmailTaken
    /\ users = last.users_before
    /\ last.token = {}

(* C11: in every state reached by register, update_profile and             *)
(* delete_account calls, no two stored users have the same email and no    *)
(* two stored users have the same username.                                *)
C11_UniqueEmailAndUsername ==
    \A u \in users : \A v \in users :
        (u.email = v.email \/ u.username = v.username \/ u.id = v.id) => u = v

C11_Witness ==
    /\ Cardinality(users) = MaxUsers
    /\ last.op = "update_profile"
    /\ last.error = ErrEmailTaken
    /\ \E u \in users : u.id = last.user_id /\ u.email # last.user_data.email
    /\ \E u \in users : u.id # last.user_id /\ u.email = last.user_data.email

(* the errors by which the services report a duplicate email or username *)
ConflictErrors == {ErrEmailTaken, ErrUsernameTaken}

(* C12: when register calls with the same email run concurrently, their    *)
(* existence checks and inserts interleaved in any order, one of them      *)
(* creates the user and a call that finds the email stored when it inserts *)
(* ends with a conflict error and creates nothing; at no point do two      *)
(* users with that email exist.                                            *)
C12_ConcurrentRegister ==
    /\ \A u \in users : \A v \in users : u.email = v.email => u = v
    /\ (/\ last.op = "register"
        /\ \E u \in last.users_before : u.email = last.user_data.email)
          => /\ last.error \in ConflictErrors
             /\ users = last.users_before
    /\ (/\ last.op = "register"
        /\ \A u \in last.users_before : /\ u.email # last.user_data.email
                                         /\ u.username # last.user_data.username)
          => /\ last.error = Ok
             /\ \E u \in users \ last.users_before : u.email = last.user_data.email

(* C13: a register call whose email and username are both unused succeeds, *)
(* stores exactly one new user carrying that email and username, and       *)
(* returns a token that decode_token, at any time up to its expiry, maps   *)
(* to the id and the email of the user just created.                       *)
C13_RegisterIssuesToken ==
    (/\ last.op = "register"
     /\ \A u \in last.users_before : /\ u.email # last.user_data.email
                                      /\ u.username # last.user_data.username)
      => /\ last.error = Ok
         /\ Cardinality(users \ last.users_before) = 1
         /\ last.users_before \subseteq users
         /\ last.ret = users \ last.users_before
         /\ Cardinality(last.token) = 1
         /\ \A u \in last.ret : \A t \in last.token :
               /\ u.email = last.user_data.email
               /\ u.username = last.user_data.username
               /\ \A v \in last.users_before : v.id # u.id
               /\ \A now \in IssueTimes \cup ResolveTimes :
                     now <= last.now + ACCESS_TOKEN_EXPIRE_MINUTES
                       => decode_token(t, now) = {[user_id |-> u.id, email |-> u.email]}

C13_Witness ==
    /\ last.op = "register"
    /\ last.error = Ok
    /\ Cardinality(last.users_before) = 1
    /\ Cardinality(users) = 2
    /\ \E t \in last.token : \E u \in last.ret :
          /\ u.id = 2
          /\ decode_token(t, last.now + ACCESS_TOKEN_EXPIRE_MINUTES)
                = {[user_id |-> 2, email |-> last.user_data.email]}
          /\ decode_token(t, last.now + ACCESS_TOKEN_EXPIRE_MINUTES + 1) = {}

(* C14: login with an unknown email and login with a registered email and  *)
(* a wrong password fail with the same error and message, issue no token   *)
(* and change no table; login succeeds and returns a token exactly when    *)
(* the password verifies against the stored hash of the user with that     *)
(* email, and the token names that user.                                   *)
C14_LoginFailuresAlike ==
    last.op = "login" =>
        LET known == {u \in last.users_before : u.email = last.user_data.email}
            verified == {u \in known :
                            verify_password(last.user_data.password, u.password_hash)}
        IN  /\ users = last.users_before
            /\ books = last.books_before
            /\ known = {} => /\ last.error = ErrInvalidCredentials
                             /\ last.token = {}
                             /\ last.ret = {}
            /\ (known # {} /\ verified = {}) => /\ last.error = ErrInvalidCredentials
                                                /\ last.token = {}
                                                /\ last.ret = {}
            /\ last.error = Ok <=> verified # {}
            /\ last.token # {} <=> verified # {}
            /\ verified # {} =>
                  /\ last.ret = verified
                  /\ \A t \in last.token : \A u \in verified :
                        decode_token(t, last.now) = {[user_id |-> u.id, email |-> u.email]}

C14_Witness ==
    /\ last.op = "login"
    /\ \E u \in users : /\ u.email = last.user_data.email
                        /\ ~verify_password(last.user_data.password, u.password_hash)
    /\ \E e \in Emails : \A u \in users : u.email # e
    /\ last.error = ErrInvalidCredentials
    /\ last.token = {}

(* C15: update_profile fails with "User not found" when no user has the    *)
(* id; it fails with a conflict error and changes nothing when the         *)
(* UserUpdate's email (or username) differs from the user's own and        *)
(* belongs to another user; otherwise, in particular when the email or     *)
(* username given is the user's own current value, it succeeds and stores  *)
(* the given values.                                                       *)
C15_UpdateProfile ==
    last.op = "update_profile" =>
        LET me == {u \in last.users_before : u.id = last.user_id}
            others == last.users_before \ me
            patch == last.user_data
            email_conflict ==
                \E u \in me : /\ patch.email # NoneStr
                              /\ patch.email # u.email
                              /\ \E o \in others : o.email = patch.email
            username_conflict ==
                \E u \in me : /\ patch.username # NoneStr
                              /\ patch.username # u.username
                              /\ \E o \in others : o.username = patch.username
        IN  /\ me = {} => (last.error = ErrUserNotFound /\ users = last.users_before)
            /\ email_conflict => (last.error = ErrEmailTaken /\ users = last.users_before)
            /\ username_conflict => (last.error \in ConflictErrors
                                     /\ users = last.users_before)
            /\ (me # {} /\ ~email_conflict /\ ~username_conflict)
                  => /\ last.error = Ok
                     /\ users \ last.ret = others
                     /\ \A u \in me : \E r \in last.ret :
                           /\ r \in users
                           /\ r.id = u.id
                           /\ r.password_hash = u.password_hash
                           /\ r.email = (IF patch.email # NoneStr THEN patch.email
                                         ELSE u.email)
                           /\ r.username = (IF patch.username # NoneStr THEN patch.username
                                            ELSE u.username)

C15_Witness ==
    /\ last.op = "update_profile"
    /\ last.error = Ok
    /\ Cardinality(users) = MaxUsers
    /\ \E u \in last.users_before :
          /\ u.id = last.user_id
          /\ u.email = last.user_data.email
          /\ u.username = last.user_data.username
          /\ u \in users

(* the error of a login with the given email and password *)
LoginError(us, email, password) ==
    login(us, [username |-> "", email |-> email, password |-> password], 0).error

(* C16: change_password with a current password that does not verify fails *)
(* with "Current password is incorrect" and leaves the users table         *)
(* unchanged; after a successful change_password(user, current, new) a     *)
(* login with the new password succeeds and a login with the old one, when *)
(* different, fails; and no call other than a successful change_password   *)
(* changes which passwords log a stored user in.                           *)
C16_ChangePassword ==
    LET me == {u \in last.users_before : u.id = last.user_id}
        changed == last.op = "change_password" /\ last.error = Ok
    IN  /\ (/\ last.op = "change_password"
            /\ \E u \in me : ~verify_password(last.user_data.password, u.password_hash))
              => /\ last.error = ErrCurrentPassword
                 /\ users = last.users_before
        /\ changed =>
              /\ me # {}
              /\ \A u \in me :
                    /\ verify_password(last.user_data.password, u.password_hash)
                    /\ LoginError(users, u.email, last.arg) = Ok
                    /\ last.arg # last.user_data.password
                          => LoginError(users, u.email, last.user_data.password)
                                = ErrInvalidCredentials
              /\ users \ {u \in users : u.id = last.user_id} = last.users_before \ me
        /\ \A u \in users : \A p \in LoginPasswords :
              (last.op # "init" /\ ~(changed /\ u.id = last.user_id))
                 => LoginError(users, u.email, p) = LoginError(last.users_before, u.email, p)

C16_Witness ==
    /\ last.op = "change_password"
    /\ last.error = Ok
    /\ last.arg # last.user_data.password
    /\ last.arg \in Passwords
    /\ Cardinality(users) = MaxUsers
    /\ \E u \in users : /\ u.id = last.user_id
                        /\ LoginError(users, u.email, last.arg) = Ok
                        /\ LoginError(users, u.email, last.user_data.password) # Ok

(* C17: delete_account with a password that does not verify fails with     *)
(* "Password is incorrect" and deletes nothing; with a verifying password  *)
(* it removes the user and every book the user owns, and leaves all other  *)
(* users and their books unchanged.                                        *)
C17_DeleteAccount ==
    last.op = "delete_account" =>
        LET me == {u \in last.users_before : u.id = last.user_id}
        IN  /\ me = {} => /\ last.error = ErrUserNotFound
                          /\ users = last.users_before
                          /\ books = last.books_before
            /\ \A u \in me :
                  IF verify_password(last.user_data.password, u.password_hash)
                  THEN /\ last.error = Ok
                       /\ users = last.users_before \ me
                       /\ books = {b \in last.books_before : b.user_id # last.user_id}
                  ELSE /\ last.error = ErrPasswordIncorrect
                       /\ users = last.users_before
                       /\ books = last.books_before

C17_Witness ==
    /\ last.op = "delete_account"
    /\ last.error = Ok
    /\ \E b \in last.books_before : b.user_id = last.user_id
    /\ \E b \in books : b.user_id # last.user_id
    /\ \A b \in books : b.user_id # last.user_id
    /\ Cardinality(users) = Cardinality(last.users_before) - 1

(* C18: the protected identity resolution fails as unauthorized whenever   *)
(* the request's token does not decode (no token, another signing key,     *)
(* expired, sub or user_id missing) or the user id in the token is not the *)
(* id of a stored user, and otherwise returns the user with that id; the   *)
(* optional resolution returns no user (anonymous), without an error, in   *)
(* exactly the cases where the protected one fails, and the same user      *)
(* otherwise.                                                              *)
C18_IdentityResolution ==
    last.op \in {"get_current_user", "get_current_user_optional"} =>
        \A t \in last.token :
            LET decodes == /\ t # NoHeader
                           /\ t.key = SECRET_KEY
                           /\ t.exp >= last.now
                           /\ t.sub # NoneStr
                           /\ t.user_id # NoneInt
                found == {u \in users : u.id = t.user_id}
                fails == ~decodes \/ found = {}
            IN  /\ last.op = "get_current_user" =>
                      IF fails
                      THEN last.error \in {ErrCredentials, ErrNotAuthenticated}
                           /\ last.ret = {}
                      ELSE last.error = Ok /\ last.ret = found
                /\ last.op = "get_current_user_optional" =>
                      /\ last.error = Ok
                      /\ last.ret = (IF fails THEN {} ELSE found)

(* the books a user owns *)
OwnedBy(bks, user_id) == {b \in bks : b.user_id = user_id}

(* delete_all_books removes all and only the caller's books and returns    *)
(* their number; a listing of a user who owns no book is empty, total 0    *)
C19_AfterCall ==
    /\ last.op = "delete_all_books" =>
          /\ last.error = Ok
          /\ books = last.books_before \ OwnedBy(last.books_before, last.user_id)
          /\ OwnedBy(books, last.user_id) = {}
          /\ last.count = Cardinality(OwnedBy(last.books_before, last.user_id))
          /\ \A skip \in 0..MaxBooks, limit \in 1..MaxBooks :
                get_all_books(books, last.user_id, skip, limit) = [total |-> 0, books |-> {}]
    /\ (last.op = "get_all_books" /\ OwnedBy(books, last.user_id) = {}) =>
          /\ last.count = 0
          /\ last.ret = {}

(* a user who owns no book owns none after any call but the user's add_book *)
C19_StaysEmpty ==
    \A user_id \in CallerIds :
        (/\ OwnedBy(books, user_id) = {}
         /\ ~(last'.op = "add_book" /\ last'.user_id = user_id))
          => OwnedBy(books', user_id) = {}

(* C19: delete_all_books(owner) removes all and only the books owned by    *)
(* owner and returns the number removed (0, without error, when the owner  *)
(* has none); a get_all_books(owner, skip, limit) that follows it with no  *)
(* add_book in between returns total 0 and no books, for every skip and    *)
(* limit.                                                                  *)
C19_DeleteAllThenList == [](C19_AfterCall) /\ [][C19_StaysEmpty]_vars

C19_Witness ==
    /\ last.op = "delete_all_books"
    /\ last.count = 1
    /\ OwnedBy(last.books_before, last.user_id) # {}
    /\ OwnedBy(books, last.user_id) = {}
    /\ \E b \in books : b.user_id # last.user_id

(* C20: get_statistics(owner) returns total_books equal to the number of   *)
(* books owned, to_read / reading / completed equal to the number of owned *)
(* books with each status, and genres holding exactly one entry for each   *)
(* genre that an owned book has, valued with the number of such books and  *)
(* never 0; for a user with no books all counts are 0 and genres is empty. *)
C20_Statistics ==
    last.op = "get_statistics" =>
        LET mine == OwnedBy(books, last.user_id)
            st == last.stats
        IN  /\ st.total_books = Cardinality(mine)
            /\ st.to_read = Cardinality({b \in mine : b.status = TO_READ})
            /\ st.reading = Cardinality({b \in mine : b.status = READING})
            /\ st.completed = Cardinality({b \in mine : b.status = COMPLETED})
            /\ st.total_books = st.to_read + st.reading + st.completed
            /\ DOMAIN st.genres = {b.genre : b \in mine}
            /\ \A g \in DOMAIN st.genres :
                  /\ st.genres[g] = Cardinality({b \in mine : b.genre = g})
                  /\ st.genres[g] > 0
            /\ mine = {} => st = NoStats

C20_Witness ==
    /\ last.op = "get_statistics"
    /\ Cardinality(books) = MaxBooks
    /\ Cardinality(OwnedBy(books, last.user_id)) = 1
    /\ last.stats.total_books = 1
    /\ last.stats.completed = 1
    /\ last.stats.to_read = 0
    /\ DOMAIN last.stats.genres = {"Mystery"}
    /\ last.stats.genres["Mystery"] = 1

(* term occurs in text as a run of consecutive characters, letter case     *)
(* ignored                                                                  *)
ContainsIgnoreCase(text, term) ==
    \E i \in 1..(Len(text) - Len(term) + 1) :
        \A j \in 1..Len(term) : Lower(text[i + j - 1]) = Lower(term[j])

(* C21: search_books fails with "Search term must be at least 2           *)
(* characters" when the term has fewer than 2 characters; otherwise it     *)
(* returns exactly the caller's books whose title or author contains the   *)
(* term as a literal substring, letter case ignored, also for terms that   *)
(* contain the characters % and _.                                         *)
C21_SearchLiteralSubstring ==
    last.op = "search_books" =>
        IF Len(last.arg) < 2
        THEN last.error = ErrSearchTerm /\ last.ret = {}
        ELSE /\ last.error = Ok
             /\ last.ret = {b \in OwnedBy(books, last.user_id) :
                               \/ ContainsIgnoreCase(b.title, last.arg)
                               \/ ContainsIgnoreCase(b.author, last.arg)}

(* C22: every delete_book(id, owner) call either fails with "Book not      *)
(* found" and leaves the books table unchanged, when no book matches       *)
(* (id, owner), or removes exactly that one book, leaves every other book  *)
(* unchanged and returns True (the deleted row in ret); it never returns   *)
(* False (a normal return with nothing deleted).                           *)
C22_DeleteBook ==
    last.op = "delete_book" =>
        IF TargetBefore = {}
        THEN /\ last.error = ErrBookNotFound
             /\ books = last.books_before
        ELSE /\ last.error = Ok
             /\ last.ret = TargetBefore
             /\ Cardinality(TargetBefore) = 1
             /\ books = last.books_before \ TargetBefore
             /\ Cardinality(books) = Cardinality(last.books_before) - 1

C22_Witness ==
    /\ last.op = "delete_book"
    /\ last.error = Ok
    /\ last.ret # {}
    /\ Cardinality(OwnedBy(last.books_before, last.user_id)) = MaxBooks
    /\ Cardinality(books) = MaxBooks - 1
    /\ \A b \in books : b.id # last.book_id

(* the calls of the book service that write *)
BookWrites == {"add_book", "update_book", "update_status", "delete_book", "delete_all_books"}

(* C23: no add_book, update_book, update_status, delete_book or            *)
(* delete_all_books call made with caller id A creates, modifies or        *)
(* deletes a book owned by another user, and no call changes the owner of  *)
(* a stored book: a book created by add_book is owned by that call's       *)
(* caller and keeps that owner as long as it is stored.                    *)
C23_OwnerFrame ==
    last.op \in BookWrites =>
        /\ books \ OwnedBy(books, last.user_id)
              = last.books_before \ OwnedBy(last.books_before, last.user_id)
        /\ \A b \in books : \A c \in last.books_before :
              b.id = c.id => b.user_id = c.user_id
        /\ \A b \in books :
              (\A c \in last.books_before : c.id # b.id)
                 => (last.op = "add_book" /\ b.user_id = last.user_id)

C23_Witness ==
    /\ last.op = "update_book"
    /\ last.error = Ok
    /\ books # last.books_before
    /\ \E b \in books : b.user_id # last.user_id
    /\ \E b \in books : b.user_id = last.user_id /\ b.id = last.book_id

----------------------------------------------------------------------------
(* Requests whose caller was resolved before the service call runs *)

(* get_current_user has returned the caller of request c; the service call *)
(* of the request has not started yet                                       *)
ResolveCaller ==
    \E c \in Calls, authorization \in AuthorizationInputs, now \in ResolveTimes :
        /\ inflight[c].pc = "idle"
        /\ LET r == resolve_protected(users, authorization, now)
           IN  /\ r.error = Ok
               /\ inflight' = [inflight EXCEPT ![c] = [IdleCall EXCEPT
                                                         !.pc = "resolved",
                                                         !.user_id = RetId(r.user)]]
               /\ last' = UserLog("get_current_user", 0, NoUserData, NoneStr, now,
                                  AuthResult(users, r.error, r.user, {authorization}))
        /\ UNCHANGED <<users, books>>

(* add_book of request c, called with the id of the resolved caller *)
AddBookResolved(cap, inputs) ==
    \E c \in Calls, book_data \in inputs :
        /\ inflight[c].pc = "resolved"
        /\ NewBookId(books) <= cap
        /\ LET user_id == inflight[c].user_id
               r == add_book(books, book_data, user_id)
           IN  /\ books' = r.books
               /\ last' = Log("add_book", user_id, RetId(r.ret), book_data, NoneStr,
                              NoneInt, r.error, r.ret)
        /\ inflight' = [inflight EXCEPT ![c] = IdleCall]
        /\ UNCHANGED users

NextOrphan ==
    \/ ResolveCaller
    \/ AddBookResolved(MaxBooks, OwnerCreates)
    \/ DeleteBook
    \/ DeleteAccount(Passwords)

(* add_book requests of two users interleaved with account deletions *)
SpecOrphan == InitOwner /\ [][NextOrphan]_vars

(* C24: the owner id of every stored book is the id of an existing user,    *)
(* also when an add_book request whose caller is already resolved runs      *)
(* after the delete_account of that caller; right after a successful        *)
(* delete_account(U) no book of U is stored                                 *)
C24_BookOwnerExists ==
    /\ \A b \in books : \E u \in users : u.id = b.user_id
    /\ (last.op = "delete_account" /\ last.error = Ok
            => OwnedBy(books, last.user_id) = {})

----------------------------------------------------------------------------
(* get_stats query by query.  The five queries of one call are separate    *)
(* SELECT statements on the request's session; a SELECT takes no lock that *)
(* outlives it, so each one reads the rows committed when it runs and the  *)
(* writes of other requests can commit between two of them.                *)

(* the requests that may be inside get_stats at the same time *)
StatsCalls == {c \in Calls : c <= MaxStatsCalls}

(* total = self.count_by_user(db, user_id) *)
GetStatsTotal ==
    \E c \in StatsCalls, user_id \in CallerIds :
        /\ inflight[c].pc = "idle"
        /\ inflight' = [inflight EXCEPT ![c] =
               [IdleCall EXCEPT !.pc = "total", !.user_id = user_id,
                                !.stats.total_books = count_by_user(books, user_id)]]
        /\ UNCHANGED <<users, books, last>>

(* to_read = self.count_by_status(db, user_id, "To Read") *)
GetStatsToRead ==
    \E c \in StatsCalls :
        /\ inflight[c].pc = "total"
        /\ inflight' = [inflight EXCEPT
               ![c].pc = "to_read",
               ![c].stats.to_read = count_by_status(books, inflight[c].user_id, TO_READ)]
        /\ UNCHANGED <<users, books, last>>

(* reading = self.count_by_status(db, user_id, "Reading") *)
GetStatsReading ==
    \E c \in StatsCalls :
        /\ inflight[c].pc = "to_read"
        /\ inflight' = [inflight EXCEPT
               ![c].pc = "reading",
               ![c].stats.reading = count_by_status(books, inflight[c].user_id, READING)]
        /\ UNCHANGED <<users, books, last>>

(* completed = self.count_by_status(db, user_id, "Completed") *)
GetStatsCompleted ==
    \E c \in StatsCalls :
        /\ inflight[c].pc = "reading"
        /\ inflight' = [inflight EXCEPT
               ![c].pc = "completed",
               ![c].stats.completed = count_by_status(books, inflight[c].user_id, COMPLETED)]
        /\ UNCHANGED <<users, books, last>>

(* the genre query, and the BookStats get_statistics returns *)
GetStatsGenres ==
    \E c \in StatsCalls :
        /\ inflight[c].pc = "completed"
        /\ LET user_id == inflight[c].user_id
               stats == [inflight[c].stats EXCEPT !.genres = genre_counts(books, user_id)]
           IN  last' = [Log("get_statistics", user_id, 0, EmptyUpdate, NoneStr, NoneInt,
                            Ok, {})
                          EXCEPT !.stats = stats]
        /\ inflight' = [inflight EXCEPT ![c] = IdleCall]
        /\ UNCHANGED <<users, books>>

NextStats ==
    \/ AddBook(MaxBooks, OwnerCreates)
    \/ UpdateStatus({READING}, {1})
    \/ DeleteBook
    \/ GetStatsTotal
    \/ GetStatsToRead
    \/ GetStatsReading
    \/ GetStatsCompleted
    \/ GetStatsGenres

(* one user's statistics requested while the user's books are written *)
SpecStats == Init /\ [][NextStats]_vars

RECURSIVE SumOver(_, _)
SumOver(f, keys) ==
    IF keys = {} THEN 0
    ELSE LET k == CHOOSE x \in keys : TRUE IN f[k] + SumOver(f, keys \ {k})

(* C25: every get_statistics result has to_read + reading + completed =     *)
(* total_books and genre counts that add up to total_books, also when the   *)
(* queries of the call are interleaved with add_book, update_status and     *)
(* delete_book calls of the same user                                       *)
C25_StatsAddUp ==
    last.op = "get_statistics" =>
        /\ last.stats.to_read + last.stats.reading + last.stats.completed
              = last.stats.total_books
        /\ SumOver(last.stats.genres, DOMAIN last.stats.genres) = last.stats.total_books

----------------------------------------------------------------------------
(* Clients and the tokens they hold.  A client that registered or logged   *)
(* in keeps the token of the response; inflight[c] records the token, the  *)
(* id of the account it was issued to and whether that account still       *)
(* exists ("holding") or has been deleted since ("revoked").               *)

Held(res, user) ==
    [IdleCall EXCEPT !.pc = "holding", !.user_id = user.id, !.token = res.token]

(* register by client c, who keeps the token of a successful response *)
RegisterClient(usernames, emails) ==
    \E c \in Calls, username \in usernames, email \in emails, password \in Passwords,
       salt \in Salts, now \in IssueTimes :
        /\ inflight[c].pc = "idle"
        /\ LET user_data == [username |-> username, email |-> email, password |-> password]
               r == register(users, user_data, salt, now)
           IN  /\ Cardinality(r.users) <= MaxUsers
               /\ users' = r.users
               /\ last' = [AuthLog("register", user_data, r) EXCEPT !.now = now]
               /\ inflight' = IF r.error = Ok
                              THEN [inflight EXCEPT ![c] = Held(r, CHOOSE u \in r.user : TRUE)]
                              ELSE inflight
        /\ UNCHANGED books

(* login by client c, who keeps the token of a successful response *)
LoginClient ==
    \E c \in Calls, email \in Emails, password \in Passwords, now \in IssueTimes :
        /\ inflight[c].pc = "idle"
        /\ LET login_data == [username |-> "", email |-> email, password |-> password]
               r == login(users, login_data, now)
           IN  /\ last' = UserLog("login", 0, login_data, NoneStr, now, r)
               /\ inflight' = IF r.error = Ok
                              THEN [inflight EXCEPT ![c] = Held(r, CHOOSE u \in r.user : TRUE)]
                              ELSE inflight
        /\ UNCHANGED <<users, books>>

(* delete_account; the tokens issued to the deleted account are marked *)
DeleteAccountHeld(passwords) ==
    \E user_id \in TargetIds, password \in passwords :
        /\ LET r == delete_account(users, books, user_id, password)
           IN  /\ users' = r.users
               /\ books' = r.books
               /\ last' = UserLog("delete_account", user_id,
                                  [username |-> "", email |-> "", password |-> password],
                                  NoneStr, NoneInt, AuthResult(r.users, r.error, {}, {}))
               /\ inflight' = [c \in Calls |->
                                 IF /\ r.error = Ok
                                    /\ inflight[c].pc = "holding"
                                    /\ inflight[c].user_id = user_id
                                 THEN [inflight[c] EXCEPT !.pc = "revoked"]
                                 ELSE inflight[c]]

(* client c sends the token it holds to a protected endpoint; the log      *)
(* names the account the token was issued to and whether it still exists   *)
PresentToken ==
    \E c \in Calls, now \in ResolveTimes :
        /\ inflight[c].pc \in {"holding", "revoked"}
        /\ LET token == CHOOSE t \in inflight[c].token : TRUE
               r == resolve_protected(users, token, now)
           IN  last' = UserLog("get_current_user", inflight[c].user_id, NoUserData,
                               inflight[c].pc, now,
                               AuthResult(users, r.error, r.user, {token}))
        /\ UNCHANGED <<users, books, inflight>>

NextToken ==
    \/ RegisterClient({"alice", "bob"}, {"a@x.com", "b@x.com"})
    \/ LoginClient
    \/ UpdateProfile
    \/ DeleteAccountHeld(Passwords)
    \/ PresentToken

(* accounts come and go while clients keep presenting their tokens *)
SpecToken == InitAuth /\ [][NextToken]_vars

(* C26: when get_current_user accepts an unexpired token and returns a     *)
(* user, the account the token was issued to still exists and is the user  *)
(* returned; a token whose account was deleted is rejected, whatever was   *)
(* registered afterwards                                                    *)
C26_TokenResolvesToItsAccount ==
    (last.op = "get_current_user" /\ last.error = Ok) =>
        /\ last.arg = "holding"
        /\ RetId(last.ret) = last.user_id

====
